---- MODULE Spec2Model ----
(***************************************************************************)
(* Invoice OCR service: PDF rasterizer, DeepSeek OCR client with bounded   *)
(* retries, the pipeline gluing both, and the in-memory FAISS index.       *)
(*                                                                         *)
(* Spec       one /ocr/invoice request: upload check, rasterization, the   *)
(*            retry loop of extract_invoice, the pipeline's finally block. *)
(* SpecIndex  add_invoices / query / drop called one after another.        *)
(* SpecServer several request handlers on one event loop sharing the index.*)
(***************************************************************************)
EXTENDS Integers, Sequences, FiniteSets, TLC

\* ------------------------------------------------------------------ bounds
MaxRetries == 3
MaxPages == 2
MaxStore == 3
MaxBatch == 2
MaxTopK == 2
NumHandlers == 2
MaxRequests == 3
MaxDirs == 3
MaxItems == 1

None == "None"

VARIABLES
    \* ---- one /ocr/invoice request (Spec)
    upload,        \* the uploaded file: content type, bytes kind, pages, failing page save
    max_request_retries, \* Settings.max_request_retries
    pc,            \* position of the request handler
    rasterCalls,   \* calls of pdf_bytes_to_images made by the run
    tmpdir,        \* the TemporaryDirectory of pdf_bytes_to_images
    saved,         \* page images written into the temporary directory
    rasterized,    \* Pipeline.run's local: None or the RasterizedPDF
    cleanupCalls,  \* how often RasterizedPDF.cleanup was invoked
    cleanupRaised, \* whether that cleanup raised
    iter,          \* iterations of the retry loop started so far
    calls,         \* transport calls (POST chat/completions) issued
    inflight,      \* transport calls awaiting their response
    last_error,    \* extract_invoice's local last_error
    resps,         \* the responses received, one per finished attempt
    errors,        \* the exception each finished attempt raised (None: it returned)
    pending,       \* outcome of Pipeline.run's try block
    result,        \* outcome of Pipeline.run as its caller sees it
    http,          \* status code the handler answers with (0: none yet)
    \* ---- the process-wide InvoiceFaissIndex
    index,         \* _index: None, or the IndexFlatIP (its d and its vectors)
    dimension,     \* _dimension (0: None)
    store,         \* _store: the IndexedInvoice list
    ixOut,         \* the last index call and what it gave its caller
    since,         \* history: whether a non-empty add was called since construction or
                   \* the last drop, and how many entries that drop discarded
    \* ---- request handlers on the event loop (SpecServer)
    handlers,      \* per handler: the request it serves and its position in it
    running,       \* the handler holding the event loop (0: the loop is free)
    accepted,      \* requests accepted so far
    \* ---- pipeline runs in flight on the event loop (SpecRuns)
    runs,          \* per run: its position, its temporary directory, its page count
    tmpfs,         \* the host's temporary directories: name -> files and finalizer
    \* ---- one attempt of extract_invoice on one model reply (SpecParse)
    reply,         \* the JSON object in the completion's message content
    parsed         \* what the attempt gave: the record, or the exception

ocrVars == <<upload, max_request_retries, pc, rasterCalls, tmpdir, saved, rasterized, cleanupCalls,
             cleanupRaised, iter, calls, inflight, last_error, resps, errors, pending,
             result, http>>

ixVars == <<index, dimension, store, ixOut, since>>

srvVars == <<handlers, running, accepted>>
runVars == <<runs, tmpfs>>
parseVars == <<reply, parsed>>

vars == <<ocrVars, ixVars, srvVars, runVars, parseVars>>

\* ------------------------------------------------------------ outcomes
NoOutcome == [kind |-> "none", exc |-> None, cause |-> None, value |-> None]
Returned(v) == [kind |-> "returned", exc |-> None, cause |-> None, value |-> v]
Raised(e, c) == [kind |-> "raised", exc |-> e, cause |-> c, value |-> None]

\* ------------------------------------------------------------ uploads
Uploads ==
    { [content_type |-> ct, bytes |-> b, pages |-> n, saveFail |-> f, index_result |-> x] :
        ct \in {"application/pdf", "text/plain"}, x \in BOOLEAN,
        b \in {"empty", "garbage", "pdf"},
        n \in 0..MaxPages, f \in 0..MaxPages }

\* Uploads that differ only in fields the bytes kind makes meaningless are one upload.
WellFormedUpload(u) ==
    /\ (u.bytes # "pdf" => u.pages = 0)
    /\ u.saveFail <= u.pages

\* ------------------------------------------------------------ OCR responses
\* Validated records: an id, and whether invoice_date / due_date carries a date.
InvA == [id |-> "invA", dated |-> FALSE]
InvB == [id |-> "invB", dated |-> FALSE]
InvC == [id |-> "invC", dated |-> TRUE]
Invoices == {InvA, InvB, InvC}

\* What one POST to chat/completions comes back with, layer by layer:
\*   net      the connection: "ok", "timeout", "connect" (connection refused)
\*   status   the HTTP status code
\*   body     "json" when the HTTP body decodes as JSON, "text" otherwise
\*   choices  shape of the completion: "ok", or the key/index that is missing
\*   content  the message content: "object", "array" (JSON, not an object),
\*            "prose" (not JSON), "null" (no text at all)
\*   data     the object's "data" key: "object", "missing", "null"
\*   valid    whether the defaulted object passes InvoiceOCRResponse validation
\*   invoice  the record a valid object validates to
GoodResponse(inv) ==
    [net |-> "ok", status |-> 200, body |-> "json", choices |-> "ok",
     content |-> "object", data |-> "object", valid |-> TRUE, invoice |-> inv]

Responses ==
    { GoodResponse(inv) : inv \in Invoices }
    \cup { [GoodResponse(InvA) EXCEPT !.net = n] : n \in {"timeout", "connect"} }
    \cup { [GoodResponse(InvA) EXCEPT !.status = 503] }
    \cup { [GoodResponse(InvA) EXCEPT !.body = "text"] }
    \cup { [GoodResponse(InvA) EXCEPT !.choices = c] :
             c \in {"missing", "empty", "noMessage", "noContent"} }
    \cup { [GoodResponse(InvA) EXCEPT !.content = c] : c \in {"prose", "null", "array"} }
    \cup { [GoodResponse(InvA) EXCEPT !.data = d] : d \in {"missing", "null"} }
    \cup { [GoodResponse(InvA) EXCEPT !.valid = FALSE] }

\* _post_completion: the exception it raises, or None when it returns the completion.
PostCompletion(r) ==
    IF r.net = "timeout" THEN "httpx.TimeoutException"
    ELSE IF r.net = "connect" THEN "httpx.ConnectError"
    ELSE IF r.status \notin 200..299 THEN "httpx.HTTPStatusError"   \* raise_for_status()
    ELSE IF r.body # "json" THEN "json.JSONDecodeError"             \* response.json()
    ELSE None

\* _parse_completion: the exception it raises, or None when it returns a record.
ParseCompletion(r) ==
    IF r.choices \in {"missing", "noMessage", "noContent"} THEN "OCRClientError" \* KeyError
    ELSE IF r.choices = "empty" THEN "OCRClientError"                          \* IndexError
    ELSE IF r.content = "null" THEN "TypeError"            \* json.loads(None)
    ELSE IF r.content = "prose" THEN "OCRClientError"      \* json.JSONDecodeError
    ELSE IF r.content = "array" THEN "AttributeError"      \* list has no setdefault
    ELSE IF r.data = "null" THEN "AttributeError"          \* None has no setdefault
    ELSE IF ~r.valid THEN "ValidationError"                \* model_validate
    ELSE None

\* One pass through the try body of the retry loop.
AttemptError(r) ==
    IF PostCompletion(r) # None THEN PostCompletion(r) ELSE ParseCompletion(r)

\* ------------------------------------------------------------ the reply as a JSON object
\* A key of a JSON object: <<>> when the object lacks the key, <<v>> when it maps
\* the key to v. After validation <<>> is the field's None.
Opt(S) == {<<>>} \cup { <<v>> : v \in S }

\* Numbers a reply carries: a negative one and the boundary of ge=0.
JNums == {-1, 0}

\* Settings.deepseek_model
deepseek_model == "deepseek-ai/DeepSeek-OCR"

\* A line item, the totals, the data object and the whole reply, as the model may
\* write them (a reply without line_items validates like one with an empty list).
LineItemObjs ==
    [description : Opt({"widget"}), quantity : JNums, unit_price : JNums, total : Opt(JNums)]

TotalsObjs ==
    [subtotal : Opt(JNums), tax : Opt(JNums), discounts : Opt(JNums), total : Opt(JNums)]

DataObjs ==
    [totals : Opt(TotalsObjs),
     line_items : UNION { [1..n -> LineItemObjs] : n \in 0..MaxItems }]

Replies ==
    [schema_version : Opt({"invoice_v1", "invoice_v2"}),
     status : Opt({"error", "partial"}),
     model : Opt({"some-other-model"}),
     warnings : Opt({<<"smudged scan">>}),
     data : Opt(DataObjs)]

\* {} as totals and as data
EmptyTotals == [subtotal |-> <<>>, tax |-> <<>>, discounts |-> <<>>, total |-> <<>>]
EmptyData == [totals |-> <<>>, line_items |-> <<>>]

\* dict.setdefault(key, v): the key's value is set only when the key is missing.
\* (variant: data[key] = v, which overwrites what the model supplied)
SetDefault_overwrite(o, v) == <<v>>
SetDefault(o, v) == IF o = <<>> THEN <<v>> ELSE o

\* The six setdefault calls of _parse_completion.
SetDefaults(doc) ==
    [schema_version |-> SetDefault(doc.schema_version, "invoice_v1"),
     status |-> SetDefault(doc.status, "success"),
     model |-> SetDefault(doc.model, deepseek_model),
     warnings |-> SetDefault(doc.warnings, <<>>),
     data |-> LET d == SetDefault(doc.data, EmptyData)[1] IN
              <<[d EXCEPT !.totals = SetDefault(d.totals, EmptyTotals)]>>]

\* Field(ge=0) on a float, and on an Optional[float]
\* (variant: the constraint is not enforced)
GE0_any(x) == TRUE
GE0(x) == x >= 0

OptGE0(o) == o = <<>> \/ GE0(o[1])

\* InvoiceLineItem: description is required, total is optional.
ValidLineItem(it) ==
    /\ it.description # <<>>
    /\ GE0(it.quantity)
    /\ GE0(it.unit_price)
    /\ OptGE0(it.total)

\* InvoiceTotals: discounts carries no constraint.
ValidTotals(t) ==
    /\ OptGE0(t.subtotal)
    /\ OptGE0(t.tax)
    /\ OptGE0(t.total)

\* InvoiceOCRResponse.model_validate on the defaulted object: schema_version and
\* model are any str, status is Literal["success", "error"].
ModelValidate(d) ==
    /\ d.status[1] \in {"success", "error"}
    /\ ValidTotals(d.data[1].totals[1])
    /\ \A i \in 1..Len(d.data[1].line_items) : ValidLineItem(d.data[1].line_items[i])

\* The record model_validate builds from a defaulted object that validates.
InvoiceOCRResponse(d) ==
    [schema_version |-> d.schema_version[1],
     status |-> d.status[1],
     model |-> d.model[1],
     warnings |-> d.warnings[1],
     totals |-> [subtotal |-> d.data[1].totals[1].subtotal,
                 tax |-> d.data[1].totals[1].tax,
                 discounts |-> d.data[1].totals[1].discounts,
                 total |-> d.data[1].totals[1].total,
                 currency |-> "USD"],
     line_items |-> d.data[1].line_items]

\* The completion that carries doc as its message content.
Completion(doc) ==
    [GoodResponse(InvA) EXCEPT
        !.data = IF doc.data = <<>> THEN "missing" ELSE "object",
        !.valid = ModelValidate(SetDefaults(doc))]

\* A reply with every key, all of it valid.
FullReply ==
    [schema_version |-> <<"invoice_v1">>, status |-> <<"error">>,
     model |-> <<"some-other-model">>, warnings |-> <<<<"smudged scan">>>>,
     data |-> <<[totals |-> <<[EmptyTotals EXCEPT !.total = <<0>>]>>,
                 line_items |-> <<[description |-> <<"widget">>, quantity |-> 0,
                                   unit_price |-> 0, total |-> <<>>]>>]>>]

\* httpx.HTTPError is the base of the timeout, connection and status errors.
IsHTTPError(e) ==
    e \in {"httpx.TimeoutException", "httpx.ConnectError", "httpx.HTTPStatusError"}

\* except (httpx.HTTPError, OCRClientError, ValidationError)
\* (variant: except (httpx.HTTPStatusError, OCRClientError, ValidationError))
Caught_statusOnly(e) == e \in {"httpx.HTTPStatusError", "OCRClientError", "ValidationError"}
Caught(e) == IsHTTPError(e) \/ e \in {"OCRClientError", "ValidationError"}

\* for attempt in range(1, max_request_retries + 1)
\* (variant: range(1, max_request_retries + 2), one iteration too many)
AttemptRange_more(m) == [i \in 1..(m + 1) |-> i]
AttemptRange(m) == [i \in 1..m |-> i]

\* last_error = exc
\* (variant: the first failure is kept)
RecordError_first(last, exc) == IF last = None THEN exc ELSE last
RecordError(last, exc) == exc

\* if not image_paths
\* (variant: the check is missing)
NoImages_never(paths) == FALSE
NoImages(paths) == Len(paths) = 0

\* for idx, image in enumerate(pil_images, start=1): the file page_<idx>.png holds the
\* idx-th page, and image_paths lists the files in that order.
\* (variant: the file name does not depend on idx, every page is saved over the last)
PageImages_oneFile(n) == [i \in 1..n |-> [file |-> 1, page |-> n]]
PageImages(n) == [i \in 1..n |-> [file |-> i, page |-> i]]

\* A RasterizedPDF (image_paths and its _tmpdir), and the None of Pipeline.run's local.
NoHandle == [bound |-> FALSE, image_paths |-> <<>>]
RasterizedPDF(paths) == [bound |-> TRUE, image_paths |-> paths]

\* if rasterized:   (a RasterizedPDF object is truthy whatever it holds)
\* (variant: the test looks at image_paths instead)
NeedsCleanup_nonempty(r) == r.bound /\ Len(r.image_paths) > 0
NeedsCleanup(r) == r.bound

\* try: rasterized.cleanup()  except Exception: logger.debug(...)
\* (variant: no try/except around cleanup)
AfterFinally_unguarded(out, raised) == IF raised THEN Raised("CleanupError", None) ELSE out
\* (variant: errors are wrapped in an error of the pipeline's own)
AfterFinally_wrapped(out, raised) ==
    IF out.kind = "raised" THEN Raised("PipelineError", out.exc) ELSE out
AfterFinally(out, raised) == out

\* ------------------------------------------------------------ the FAISS index
\* Widths the embedder may answer with (one model gives one width; two model a
\* changed embedder).
Dims == {384, 768}

\* What one embedder.encode call does: raise, or give vectors of width d.
EncodeOutcomes ==
    {[raises |-> TRUE, d |-> 0]} \cup {[raises |-> FALSE, d |-> d] : d \in Dims}

\* self._index = None, and faiss.IndexFlatIP(dim)
NoIndex == [live |-> FALSE, d |-> 0, vectors |-> <<>>]
IndexFlatIP(dim) == [live |-> TRUE, d |-> dim, vectors |-> <<>>]

\* invoice.model_dump(): the dict; dates stay datetime.date objects.
ModelDump(inv) == [dict |-> inv.id, dates |-> inv.dated]

\* json.dumps(dump, ensure_ascii=False) raises TypeError on a date object.
CanDump(dump) == ~dump.dates
Dumps(dump) == [json |-> dump.dict]

\* One row of embedder.encode(texts, ...) at width d.
Embed(text, d) == [d |-> d, of |-> text]

IndexedInvoice(inv) == [payload |-> ModelDump(inv), raw_text |-> Dumps(ModelDump(inv))]

\* _ensure_index: creates the index, and sets _dimension, only when there is none.
\* (variant: the index is created anew on every call)
EnsureIndex_always(idx, dim) == IndexFlatIP(dim)
EnsureIndex(idx, dim) == IF ~idx.live THEN IndexFlatIP(dim) ELSE idx
EnsureDimension(idx, cur, dim) == IF ~idx.live THEN dim ELSE cur

\* self._index.add(embeddings): faiss asserts the width, then appends the rows.
IndexAccepts(idx, vecs) == \A i \in 1..Len(vecs) : vecs[i].d = idx.d
IndexAdd(idx, vecs) == [idx EXCEPT !.vectors = @ \o vecs]

\* for invoice, blob in zip(invoices, texts): self._store.append(...)
\* (variant: only the first invoice of the batch is stored)
StoreAppend_one(st, invoices) == Append(st, IndexedInvoice(invoices[1]))
StoreAppend(st, invoices) ==
    st \o [i \in 1..Len(invoices) |-> IndexedInvoice(invoices[i])]

\* The index state with the exception the call raised (None: it returned).
IndexState(idx, dimn, st, e) == [index |-> idx, dimension |-> dimn, store |-> st, exc |-> e]

\* add_invoices, from its first line to its last, with encode behaving as enc.
\* (variant: the early return on an empty sequence is missing)
add_invoices_noGuard(idx, dimn, st, invoices, enc) ==
    IF \E i \in 1..Len(invoices) : ~CanDump(ModelDump(invoices[i]))
    THEN IndexState(idx, dimn, st, "TypeError")
    ELSE IF enc.raises THEN IndexState(idx, dimn, st, "EmbedderError")
    ELSE LET vecs == [i \in 1..Len(invoices) |->
                        Embed(Dumps(ModelDump(invoices[i])), enc.d)]
             idx1 == EnsureIndex(idx, enc.d)
             dim1 == EnsureDimension(idx, dimn, enc.d)
         IN  IF ~IndexAccepts(idx1, vecs)
             THEN IndexState(idx1, dim1, st, "AssertionError")
             ELSE IndexState(IndexAdd(idx1, vecs), dim1, StoreAppend(st, invoices), None)
add_invoices(idx, dimn, st, invoices, enc) ==
    IF Len(invoices) = 0 THEN IndexState(idx, dimn, st, None)
    ELSE IF \E i \in 1..Len(invoices) : ~CanDump(ModelDump(invoices[i]))
    THEN IndexState(idx, dimn, st, "TypeError")
    ELSE IF enc.raises THEN IndexState(idx, dimn, st, "EmbedderError")
    ELSE LET vecs == [i \in 1..Len(invoices) |->
                        Embed(Dumps(ModelDump(invoices[i])), enc.d)]
             idx1 == EnsureIndex(idx, enc.d)
             dim1 == EnsureDimension(idx, dimn, enc.d)
         IN  IF ~IndexAccepts(idx1, vecs)
             THEN IndexState(idx1, dim1, st, "AssertionError")
             ELSE IndexState(IndexAdd(idx1, vecs), dim1, StoreAppend(st, invoices), None)

\* drop: self._index = None; self._dimension = None; self._store.clear()
\* (variant: the store is not cleared)
drop_keepStore(idx, dimn, st) == IndexState(NoIndex, 0, st, None)
drop(idx, dimn, st) == IndexState(NoIndex, 0, <<>>, None)

Queries == {"acme", "globex"}

\* Inner product of the query's embedding with a stored vector.
Score(q, v) == IF q = "acme" /\ v.of.json = "invA" THEN 9 ELSE 5

\* The orders in which a search may rank the n stored positions 0..n-1: best score
\* first, equal scores in any order.
Rankings(vectors, q) ==
    LET n == Len(vectors) IN
    { r \in { [i \in 1..n |-> p[i] - 1] : p \in Permutations(1..n) } :
        \A i, j \in 1..n : i < j =>
             Score(q, vectors[r[i] + 1]) >= Score(q, vectors[r[j] + 1]) }

\* self._index.search(embedding, top_k): top_k (position, score) pairs, padded with
\* position -1 when fewer vectors are stored.
Search(vectors, q, top_k, r) ==
    [i \in 1..top_k |->
        IF i <= Len(vectors)
        THEN [idx |-> r[i], score |-> Score(q, vectors[r[i] + 1])]
        ELSE [idx |-> -1, score |-> -1000]]

\* if idx < 0 or idx >= len(self._store): continue
Skipped(hit, st) == hit.idx < 0 \/ hit.idx >= Len(st)

\* The loop over zip(indices[0], distances[0]) building results.
\* (variant: the entry is looked up by the loop's count, not by the returned position)
MapHits_byCount(hits, st) ==
    LET kept == SelectSeq(hits, LAMBDA h : ~Skipped(h, st)) IN
    [i \in 1..Len(kept) |-> [score |-> kept[i].score, invoice |-> st[i].payload]]
MapHits(hits, st) ==
    LET kept == SelectSeq(hits, LAMBDA h : ~Skipped(h, st)) IN
    [i \in 1..Len(kept) |->
        [score |-> kept[i].score, invoice |-> st[kept[i].idx + 1].payload]]

QueryOut(e, hits, results) == [exc |-> e, hits |-> hits, results |-> results]

\* query, with encode behaving as enc and the search ranking as r.
\* (variant: the query text is embedded before the index is looked at)
query_encodeFirst(idx, st, q, top_k, enc, r) ==
    IF enc.raises THEN QueryOut("EmbedderError", <<>>, <<>>)
    ELSE IF ~idx.live THEN QueryOut(None, <<>>, <<>>)
    ELSE IF enc.d # idx.d THEN QueryOut("AssertionError", <<>>, <<>>)
    ELSE LET hits == Search(idx.vectors, q, top_k, r) IN
         QueryOut(None, hits, MapHits(hits, st))
query(idx, st, q, top_k, enc, r) ==
    IF ~idx.live THEN QueryOut(None, <<>>, <<>>)
    ELSE IF enc.raises THEN QueryOut("EmbedderError", <<>>, <<>>)
    ELSE IF enc.d # idx.d THEN QueryOut("AssertionError", <<>>, <<>>)
    ELSE LET hits == Search(idx.vectors, q, top_k, r) IN
         QueryOut(None, hits, MapHits(hits, st))

NoCall == [op |-> "none", exc |-> None, n |-> 0, top_k |-> 0, hits |-> <<>>, results |-> <<>>]
AddCall(n, e) == [NoCall EXCEPT !.op = "add", !.exc = e, !.n = n]
DropCall == [NoCall EXCEPT !.op = "drop"]
QueryCall(k, out) ==
    [NoCall EXCEPT !.op = "query", !.exc = out.exc, !.top_k = k,
                   !.hits = out.hits, !.results = out.results]

\* The history after add_invoices was called with n invoices, and after drop was
\* called on a store of n entries.
AfterAdd(s, n) == IF n > 0 THEN [s EXCEPT !.added = TRUE] ELSE s
AfterDrop(s, n) == [added |-> FALSE, dropped |-> n]

Batches == UNION { [1..n -> Invoices] : n \in 0..MaxBatch }

\* ------------------------------------------------------------ the event loop
HandlerIds == 1..NumHandlers

Idle == [kind |-> "idle", pc |-> "idle", inv |-> InvA, index_result |-> FALSE, d |-> 0]

\* Where each kind of request starts.
Entry(kind) ==
    CASE kind = "ocr" -> "read"
      [] kind = "index" -> "add.dump"
      [] kind = "query" -> "query"
      [] kind = "drop" -> "drop.index"

\* A coroutine gives up the event loop only where it awaits (file.read and
\* pipeline.run in ocr_invoice) and when it returns; add_invoices, query and drop
\* are plain functions called from async def handlers.
\* (variant: handlers declared def run on threads and are preempted anywhere)
Yields_threaded(at) == TRUE
Yields(at) == at \in {"idle", "read", "run"}

\* ------------------------------------------------------------ temporary directories
RunIds == 1..NumHandlers

\* Names tempfile can give a directory.
DirNames == 1..MaxDirs

\* tempfile.TemporaryDirectory(): mkdtemp makes a directory under a name that no
\* existing directory has.
\* (variant: every run rasterizes into one configured directory)
Mkdtemp_shared(existing) == {1}
Mkdtemp(existing) == DirNames \ existing

\* The files image.save has written for the first k of n pages.
Images(n, k) == { PageImages(n)[i] : i \in 1..k }

\* A directory as TemporaryDirectory leaves it: its files, and whether its finalizer
\* is still attached (it removes the directory once the object is unreachable).
MkDir(fs, name, files) ==
    [x \in (DOMAIN fs) \cup {name} |->
        IF x = name THEN [files |-> files, finalizer |-> TRUE] ELSE fs[x]]

\* TemporaryDirectory.cleanup(): detaches the finalizer and removes the tree; when
\* the removal raises, the directory stays behind for good.
RmTree(fs, name, raises) ==
    IF raises
    THEN [x \in DOMAIN fs |-> IF x = name THEN [fs[x] EXCEPT !.finalizer = FALSE] ELSE fs[x]]
    ELSE [x \in (DOMAIN fs) \ {name} |-> fs[x]]

NoDirs == [x \in {} |-> [files |-> {}, finalizer |-> FALSE]]

NoRun == [pc |-> "idle", dir |-> 0, pages |-> 0]

\* ------------------------------------------------------------ Init
NoRuns ==
    /\ runs = [r \in RunIds |-> NoRun]
    /\ tmpfs = NoDirs

NoReply ==
    /\ reply = FullReply
    /\ parsed = NoOutcome

IndexEmpty ==
    /\ index = NoIndex
    /\ dimension = 0
    /\ store = <<>>
    /\ ixOut = NoCall
    /\ since = [added |-> FALSE, dropped |-> 0]

LoopIdle ==
    /\ handlers = [h \in HandlerIds |-> Idle]
    /\ running = 0
    /\ accepted = 0

Init ==
    /\ IndexEmpty
    /\ LoopIdle
    /\ NoRuns
    /\ NoReply
    /\ upload \in { u \in Uploads : WellFormedUpload(u) }
    /\ max_request_retries \in 0..MaxRetries
    /\ pc = "request"
    /\ rasterCalls = 0
    /\ tmpdir = "none"
    /\ saved = {}
    /\ rasterized = NoHandle
    /\ cleanupCalls = 0
    /\ cleanupRaised = FALSE
    /\ iter = 0
    /\ calls = 0
    /\ inflight = 0
    /\ last_error = None
    /\ resps = <<>>
    /\ errors = <<>>
    /\ pending = NoOutcome
    /\ result = NoOutcome
    /\ http = 0

\* ------------------------------------------------------------ actions
\* ocr_invoice up to the call of pipeline.run: content type and empty-file checks.
Request ==
    /\ pc = "request"
    /\ IF upload.content_type \notin {"application/pdf", "application/octet-stream"}
          \/ upload.bytes = "empty"
       THEN /\ http' = 400
            /\ pc' = "done"
       ELSE /\ http' = http
            /\ pc' = "rasterize"
    /\ UNCHANGED <<upload, rasterCalls, max_request_retries, tmpdir, saved, rasterized, cleanupCalls,
                   cleanupRaised, iter, calls, inflight, last_error, resps, errors,
                   pending, result>>
    /\ UNCHANGED <<ixVars, srvVars, runVars, parseVars>>

\* pdf_bytes_to_images, called from the try block of Pipeline.run.
Rasterize ==
    /\ pc = "rasterize"
    /\ IF upload.bytes # "pdf"
       THEN \* convert_from_bytes raises; nothing releases the directory
            /\ tmpdir' = "allocated"
            /\ saved' = {}
            /\ rasterized' = NoHandle
            /\ pending' = Raised("PDFPageCountError", None)
            /\ pc' = "finally"
       ELSE IF upload.saveFail > 0
       THEN \* image.save raises on that page; the earlier pages are on disk
            /\ tmpdir' = "allocated"
            /\ saved' = { PageImages(upload.pages)[i] : i \in 1..(upload.saveFail - 1) }
            /\ rasterized' = NoHandle
            /\ pending' = Raised("OSError", None)
            /\ pc' = "finally"
       ELSE /\ tmpdir' = "allocated"
            /\ saved' = { PageImages(upload.pages)[i] : i \in 1..upload.pages }
            /\ rasterized' = RasterizedPDF(PageImages(upload.pages))
            /\ pending' = pending
            /\ pc' = "extract"
    /\ rasterCalls' = rasterCalls + 1
    /\ UNCHANGED <<upload, max_request_retries, cleanupCalls, cleanupRaised, iter, calls,
                   inflight, last_error, resps, errors, result, http>>
    /\ UNCHANGED <<ixVars, srvVars, runVars, parseVars>>

\* extract_invoice before its loop: the empty check and the base64 encoding of the pages.
BeginExtract ==
    /\ pc = "extract"
    /\ IF NoImages(rasterized.image_paths)
       THEN /\ pending' = Raised("ValueError", None)
            /\ pc' = "finally"
       ELSE \E readable \in BOOLEAN :
              IF readable
              THEN /\ pending' = pending
                   /\ pc' = "loop"
              ELSE /\ pending' = Raised("OSError", None)    \* path.read_bytes()
                   /\ pc' = "finally"
    /\ last_error' = None
    /\ UNCHANGED <<upload, rasterCalls, max_request_retries, tmpdir, saved, rasterized, cleanupCalls,
                   cleanupRaised, iter, calls, inflight, resps, errors, result, http>>
    /\ UNCHANGED <<ixVars, srvVars, runVars, parseVars>>

\* The loop starts its next iteration and awaits self._client.post(...).
\* (variant: the next attempt is sent while the last one is still awaited)
SendAttempt_parallel ==
    /\ pc \in {"loop", "await"}
    /\ iter < Len(AttemptRange(max_request_retries))
    /\ iter' = iter + 1
    /\ calls' = calls + 1
    /\ inflight' = inflight + 1
    /\ pc' = "await"
    /\ UNCHANGED <<upload, rasterCalls, max_request_retries, tmpdir, saved, rasterized,
                   cleanupCalls, cleanupRaised, last_error, resps, errors, pending, result,
                   http>>
    /\ UNCHANGED <<ixVars, srvVars, runVars, parseVars>>

SendAttempt ==
    /\ pc = "loop"
    /\ iter < Len(AttemptRange(max_request_retries))
    /\ iter' = iter + 1
    /\ calls' = calls + 1
    /\ inflight' = inflight + 1
    /\ pc' = "await"
    /\ UNCHANGED <<upload, rasterCalls, max_request_retries, tmpdir, saved, rasterized, cleanupCalls,
                   cleanupRaised, last_error, resps, errors, pending, result, http>>
    /\ UNCHANGED <<ixVars, srvVars, runVars, parseVars>>

\* The awaited call finishes with response r; the rest of the iteration runs.
ReceiveAttempt ==
    /\ pc = "await"
    /\ \E r \in Responses :
        LET e == AttemptError(r) IN
        /\ resps' = Append(resps, r)
        /\ errors' = Append(errors, e)
        /\ IF e = None
           THEN /\ pending' = Returned(r.invoice)
                /\ last_error' = last_error
                /\ pc' = "finally"
           ELSE IF Caught(e)
           THEN /\ pending' = pending
                /\ last_error' = RecordError(last_error, e)
                /\ pc' = "loop"
           ELSE /\ pending' = Raised(e, None)
                /\ last_error' = last_error
                /\ pc' = "finally"
    /\ inflight' = inflight - 1
    /\ UNCHANGED <<upload, rasterCalls, max_request_retries, tmpdir, saved, rasterized, cleanupCalls,
                   cleanupRaised, iter, calls, result, http>>
    /\ UNCHANGED <<ixVars, srvVars, runVars, parseVars>>

\* The request task is cancelled while it awaits the transport call.
CancelAttempt ==
    /\ pc = "await"
    /\ inflight' = inflight - 1
    /\ pending' = Raised("asyncio.CancelledError", None)
    /\ pc' = "finally"
    /\ UNCHANGED <<upload, rasterCalls, max_request_retries, tmpdir, saved, rasterized, cleanupCalls,
                   cleanupRaised, iter, calls, last_error, resps, errors, result, http>>
    /\ UNCHANGED <<ixVars, srvVars, runVars, parseVars>>

\* The loop is over: raise OCRClientError("OCR failed after retries") from last_error
Exhausted ==
    /\ pc = "loop"
    /\ iter >= Len(AttemptRange(max_request_retries))
    /\ pending' = Raised("OCRClientError", last_error)
    /\ pc' = "finally"
    /\ UNCHANGED <<upload, rasterCalls, max_request_retries, tmpdir, saved, rasterized, cleanupCalls,
                   cleanupRaised, iter, calls, inflight, last_error, resps, errors,
                   result, http>>
    /\ UNCHANGED <<ixVars, srvVars, runVars, parseVars>>

\* The finally block of Pipeline.run.
Finally ==
    /\ pc = "finally"
    /\ IF NeedsCleanup(rasterized)
       THEN \E raises \in BOOLEAN :
              /\ cleanupCalls' = cleanupCalls + 1
              /\ cleanupRaised' = raises
              /\ tmpdir' = IF raises THEN "undeleted" ELSE "released"
              /\ saved' = IF raises THEN saved ELSE {}
              /\ result' = AfterFinally(pending, raises)
       ELSE /\ UNCHANGED <<cleanupCalls, cleanupRaised, tmpdir, saved>>
            /\ result' = AfterFinally(pending, FALSE)
    /\ pc' = "respond"
    /\ UNCHANGED <<upload, rasterCalls, max_request_retries, rasterized, iter, calls, inflight,
                   last_error, resps, errors, pending, http>>
    /\ UNCHANGED <<ixVars, srvVars, runVars, parseVars>>

\* ocr_invoice after pipeline.run: an Exception becomes a 500 (a cancellation is no
\* Exception and goes unanswered); a record is indexed when asked and answered 200.
Respond ==
    /\ pc = "respond"
    /\ IF result.kind = "returned" /\ upload.index_result
       THEN \E enc \in EncodeOutcomes :
              LET a == add_invoices(index, dimension, store, <<result.value>>, enc) IN
              /\ index' = a.index
              /\ dimension' = a.dimension
              /\ store' = a.store
              /\ ixOut' = AddCall(1, a.exc)
              /\ since' = AfterAdd(since, 1)
              /\ http' = IF a.exc = None THEN 200 ELSE 500
       ELSE /\ UNCHANGED ixVars
            /\ http' = IF result.kind = "returned" THEN 200
                       ELSE IF result.exc = "asyncio.CancelledError" THEN http
                       ELSE 500
    /\ pc' = "done"
    /\ UNCHANGED <<srvVars, runVars, parseVars>>
    /\ UNCHANGED <<upload, rasterCalls, max_request_retries, tmpdir, saved, rasterized, cleanupCalls,
                   cleanupRaised, iter, calls, inflight, last_error, resps, errors,
                   pending, result>>

\* The garbage collector finalizes a TemporaryDirectory nothing refers to any more:
\* only once the handler is done and the exception holding the frame is dropped.
Finalize ==
    /\ pc = "done"
    /\ tmpdir = "allocated"
    /\ rasterized = NoHandle
    /\ tmpdir' = "released"
    /\ saved' = {}
    /\ UNCHANGED <<upload, rasterCalls, max_request_retries, pc, rasterized, cleanupCalls,
                   cleanupRaised, iter, calls, inflight, last_error, resps, errors,
                   pending, result, http>>
    /\ UNCHANGED <<ixVars, srvVars, runVars, parseVars>>

Next ==
    \/ Request
    \/ Rasterize
    \/ BeginExtract
    \/ SendAttempt
    \/ ReceiveAttempt
    \/ CancelAttempt
    \/ Exhausted
    \/ Finally
    \/ Respond
    \/ Finalize

Spec == Init /\ [][Next]_vars

\* ------------------------------------------------------------ SpecLive
\* The steps run() takes on its own: the event loop keeps running a coroutine that
\* is not suspended.
RunSteps == Rasterize \/ BeginExtract \/ SendAttempt \/ Exhausted \/ Finally

\* The same request with progress: run() is not starved, and the client's timeout
\* (httpx.AsyncClient(timeout=...)) ends every awaited post with a response or with
\* httpx.TimeoutException.
SpecLive == Init /\ [][Next]_vars /\ WF_vars(RunSteps) /\ WF_vars(ReceiveAttempt)

\* ------------------------------------------------------------ SpecIndex
\* No /ocr/invoice request is being served.
NoRequest ==
    /\ upload = [content_type |-> "application/pdf", bytes |-> "empty", pages |-> 0,
                 saveFail |-> 0, index_result |-> FALSE]
    /\ max_request_retries = 0
    /\ pc = "idle"
    /\ rasterCalls = 0
    /\ tmpdir = "none"
    /\ saved = {}
    /\ rasterized = NoHandle
    /\ cleanupCalls = 0
    /\ cleanupRaised = FALSE
    /\ iter = 0
    /\ calls = 0
    /\ inflight = 0
    /\ last_error = None
    /\ resps = <<>>
    /\ errors = <<>>
    /\ pending = NoOutcome
    /\ result = NoOutcome
    /\ http = 0

InitIndex == NoRequest /\ IndexEmpty /\ LoopIdle /\ NoRuns /\ NoReply

\* One call of InvoiceFaissIndex.add_invoices.
AddInvoices ==
    \E invoices \in Batches, enc \in EncodeOutcomes :
        /\ Len(store) + Len(invoices) <= MaxStore
        /\ LET a == add_invoices(index, dimension, store, invoices, enc) IN
           /\ index' = a.index
           /\ dimension' = a.dimension
           /\ store' = a.store
           /\ ixOut' = AddCall(Len(invoices), a.exc)
           /\ since' = AfterAdd(since, Len(invoices))
        /\ UNCHANGED <<ocrVars, srvVars, runVars, parseVars>>

\* One call of InvoiceFaissIndex.query.
\* (variant: query creates the similarity structure when there is none)
Query_ensuring ==
    \E q \in Queries, top_k \in 1..MaxTopK, enc \in EncodeOutcomes :
      \E out \in { query(index, store, q, top_k, enc, r) : r \in Rankings(index.vectors, q) } :
        /\ ixOut' = QueryCall(top_k, out)
        /\ index' = IF enc.raises THEN index ELSE EnsureIndex(index, enc.d)
        /\ dimension' = IF enc.raises THEN dimension ELSE EnsureDimension(index, dimension, enc.d)
        /\ UNCHANGED <<store, since, ocrVars, srvVars, runVars, parseVars>>

Query ==
    \E q \in Queries, top_k \in 1..MaxTopK, enc \in EncodeOutcomes :
      \E out \in { query(index, store, q, top_k, enc, r) : r \in Rankings(index.vectors, q) } :
        /\ ixOut' = QueryCall(top_k, out)
        /\ UNCHANGED <<index, dimension, store, since, ocrVars, srvVars, runVars, parseVars>>

\* One call of InvoiceFaissIndex.drop.
Drop ==
    /\ LET a == drop(index, dimension, store) IN
       /\ index' = a.index
       /\ dimension' = a.dimension
       /\ store' = a.store
    /\ ixOut' = DropCall
    /\ since' = AfterDrop(since, Len(store))
    /\ UNCHANGED <<ocrVars, srvVars, runVars, parseVars>>

NextIndex == AddInvoices \/ Query \/ Drop

SpecIndex == InitIndex /\ [][NextIndex]_vars

\* ------------------------------------------------------------ SpecQuery
\* query as a function of the index and the store, whatever they hold: its bounds
\* check is written for a store that is shorter than the similarity structure.
InitQuery ==
    /\ NoRequest
    /\ LoopIdle
    /\ NoRuns
    /\ NoReply
    /\ \E d \in Dims :
         /\ dimension = d
         /\ index \in { [live |-> TRUE, d |-> d, vectors |-> v] :
                v \in UNION { [1..n -> { Embed(Dumps(ModelDump(inv)), d) : inv \in {InvA, InvB} }] :
                               n \in 0..MaxStore } }
    /\ store \in UNION { [1..n -> { IndexedInvoice(inv) : inv \in {InvA, InvB} }] :
                          n \in 0..MaxStore }
    /\ ixOut = NoCall
    /\ since = [added |-> TRUE, dropped |-> 0]

\* The one call of query on the index and store drawn.
QueryOnce ==
    /\ ixOut = NoCall
    /\ Query

SpecQuery == InitQuery /\ [][QueryOnce]_vars

\* ------------------------------------------------------------ SpecServer
InitServer == NoRequest /\ IndexEmpty /\ LoopIdle /\ NoRuns /\ NoReply

\* Handler h moves to position at; it keeps the event loop unless it yields there.
Goto(h, at) ==
    /\ handlers' = [handlers EXCEPT ![h].pc = at]
    /\ running' = IF Yields(at) THEN 0 ELSE h

\* Handler h returns (or raises): its request is over.
Return(h) ==
    /\ handlers' = [handlers EXCEPT ![h] = Idle]
    /\ running' = 0

\* Handler h may take a step: the loop is free, or h holds it.
Runs(h) == running \in {0, h}

\* The event loop starts a handler for a new request.
Accept(h) ==
    /\ running = 0
    /\ handlers[h].kind = "idle"
    /\ accepted < MaxRequests
    /\ accepted' = accepted + 1
    /\ \E kind \in {"ocr", "index", "query", "drop"}, inv \in Invoices, x \in BOOLEAN :
         /\ kind # "ocr" => ~x
         /\ kind \in {"query", "drop"} => inv = InvA
         /\ handlers' = [handlers EXCEPT ![h] =
                [Idle EXCEPT !.kind = kind, !.pc = Entry(kind), !.inv = inv,
                             !.index_result = x]]
         /\ running' = IF Yields(Entry(kind)) THEN 0 ELSE h
    /\ UNCHANGED <<ocrVars, ixVars, runVars, parseVars>>

\* ocr_invoice: await file.read() is over; pipeline.run starts and suspends at its
\* transport call.
OcrRead(h) ==
    /\ Runs(h)
    /\ handlers[h].pc = "read"
    /\ Goto(h, "run")
    /\ UNCHANGED <<ocrVars, ixVars, accepted, runVars, parseVars>>

\* ocr_invoice: await pipeline.run(...) is over, with the record or with an error.
OcrRun(h) ==
    /\ Runs(h)
    /\ handlers[h].pc = "run"
    /\ \E ok \in BOOLEAN :
         IF ok /\ handlers[h].index_result
         THEN Goto(h, "add.dump")
         ELSE Return(h)
    /\ UNCHANGED <<ocrVars, ixVars, accepted, runVars, parseVars>>

\* add_invoices([invoice]) up to the embeddings: json.dumps and embedder.encode.
AddDump(h) ==
    /\ Runs(h)
    /\ handlers[h].pc = "add.dump"
    /\ \E enc \in EncodeOutcomes :
         IF ~CanDump(ModelDump(handlers[h].inv)) \/ enc.raises
         THEN Return(h)
         ELSE /\ handlers' = [handlers EXCEPT ![h].pc = "add.ensure", ![h].d = enc.d]
              /\ running' = IF Yields("add.ensure") THEN 0 ELSE h
    /\ since' = AfterAdd(since, 1)
    /\ UNCHANGED <<ocrVars, index, dimension, store, ixOut, accepted, runVars, parseVars>>

\* add_invoices: self._ensure_index(dim)
AddEnsure(h) ==
    /\ Runs(h)
    /\ handlers[h].pc = "add.ensure"
    /\ index' = EnsureIndex(index, handlers[h].d)
    /\ dimension' = EnsureDimension(index, dimension, handlers[h].d)
    /\ Goto(h, "add.index")
    /\ UNCHANGED <<ocrVars, store, ixOut, since, accepted, runVars, parseVars>>

\* add_invoices: self._index.add(embeddings)
AddIndex(h) ==
    /\ Runs(h)
    /\ handlers[h].pc = "add.index"
    /\ LET vecs == <<Embed(Dumps(ModelDump(handlers[h].inv)), handlers[h].d)>> IN
       IF IndexAccepts(index, vecs)
       THEN /\ index' = IndexAdd(index, vecs)
            /\ ixOut' = ixOut
            /\ Goto(h, "add.store")
       ELSE /\ index' = index
            /\ ixOut' = AddCall(1, "AssertionError")
            /\ Return(h)
    /\ UNCHANGED <<ocrVars, dimension, store, since, accepted, runVars, parseVars>>

\* add_invoices: the loop appending to self._store, and the return.
AddStore(h) ==
    /\ Runs(h)
    /\ handlers[h].pc = "add.store"
    /\ store' = StoreAppend(store, <<handlers[h].inv>>)
    /\ ixOut' = AddCall(1, None)
    /\ Return(h)
    /\ UNCHANGED <<ocrVars, index, dimension, since, accepted, runVars, parseVars>>

\* faiss_query_endpoint: faiss_index.query(...)
QueryStep(h) ==
    /\ Runs(h)
    /\ handlers[h].pc = "query"
    /\ \E q \in Queries, top_k \in 1..MaxTopK, enc \in EncodeOutcomes :
         \E r \in Rankings(index.vectors, q) :
           ixOut' = QueryCall(top_k, query(index, store, q, top_k, enc, r))
    /\ Return(h)
    /\ UNCHANGED <<ocrVars, index, dimension, store, since, accepted, runVars, parseVars>>

\* drop: self._index = None
DropIndex(h) ==
    /\ Runs(h)
    /\ handlers[h].pc = "drop.index"
    /\ index' = NoIndex
    /\ Goto(h, "drop.dimension")
    /\ UNCHANGED <<ocrVars, dimension, store, ixOut, since, accepted, runVars, parseVars>>

\* drop: self._dimension = None
DropDimension(h) ==
    /\ Runs(h)
    /\ handlers[h].pc = "drop.dimension"
    /\ dimension' = 0
    /\ Goto(h, "drop.store")
    /\ UNCHANGED <<ocrVars, index, store, ixOut, since, accepted, runVars, parseVars>>

\* drop: self._store.clear(), and the return.
DropStore(h) ==
    /\ Runs(h)
    /\ handlers[h].pc = "drop.store"
    /\ store' = <<>>
    /\ ixOut' = DropCall
    /\ since' = AfterDrop(since, Len(store))
    /\ Return(h)
    /\ UNCHANGED <<ocrVars, index, dimension, accepted, runVars, parseVars>>

NextServer ==
    \E h \in HandlerIds :
        \/ Accept(h)
        \/ OcrRead(h)
        \/ OcrRun(h)
        \/ AddDump(h)
        \/ AddEnsure(h)
        \/ AddIndex(h)
        \/ AddStore(h)
        \/ QueryStep(h)
        \/ DropIndex(h)
        \/ DropDimension(h)
        \/ DropStore(h)

SpecServer == InitServer /\ [][NextServer]_vars

\* ------------------------------------------------------------ SpecRuns
\* Several InvoiceOCRPipeline.run coroutines on one event loop, as the host's
\* temporary directories see them.
InitRuns == NoRequest /\ IndexEmpty /\ LoopIdle /\ NoRuns /\ NoReply

\* run() up to its first suspension: pdf_bytes_to_images makes its directory and
\* writes the page images, and extract_invoice suspends at its transport call. When
\* rasterization raises, run() has no handle to clean up and the directory is left
\* to its finalizer; with no page image extract_invoice raises before any call and
\* the finally clause cleans up at once.
RunRasterize(r) ==
    /\ runs[r].pc = "idle"
    /\ \/ \E name \in Mkdtemp(DOMAIN tmpfs), n \in 1..MaxPages :
             /\ tmpfs' = MkDir(tmpfs, name, Images(n, n))
             /\ runs' = [runs EXCEPT ![r] = [pc |-> "await", dir |-> name, pages |-> n]]
       \/ \E name \in Mkdtemp(DOMAIN tmpfs), n \in 1..MaxPages, k \in 0..MaxPages :
             /\ k < n
             /\ tmpfs' = MkDir(tmpfs, name, Images(n, k))
             /\ runs' = runs
       \/ \E name \in Mkdtemp(DOMAIN tmpfs), raises \in BOOLEAN :
             /\ tmpfs' = RmTree(MkDir(tmpfs, name, {}), name, raises)
             /\ runs' = runs
    /\ UNCHANGED <<ocrVars, ixVars, srvVars, parseVars>>

\* The awaited extract_invoice is over, with the record or with an error (after
\* however many attempts: between them the run is suspended as before), and the
\* finally clause of run() cleans up the run's own directory.
RunFinally(r) ==
    /\ runs[r].pc = "await"
    /\ \E raises \in BOOLEAN :
         tmpfs' = RmTree(tmpfs, runs[r].dir, raises)
    /\ runs' = [runs EXCEPT ![r] = NoRun]
    /\ UNCHANGED <<ocrVars, ixVars, srvVars, parseVars>>

\* The TemporaryDirectory of a failed rasterization has become unreachable and its
\* finalizer removes the directory.
Collect(name) ==
    /\ name \in DOMAIN tmpfs
    /\ tmpfs[name].finalizer
    /\ \A r \in RunIds : runs[r].dir # name
    /\ tmpfs' = RmTree(tmpfs, name, FALSE)
    /\ UNCHANGED <<ocrVars, ixVars, srvVars, runs, parseVars>>

NextRuns ==
    \/ \E r \in RunIds : RunRasterize(r) \/ RunFinally(r)
    \/ \E name \in DirNames : Collect(name)

SpecRuns == InitRuns /\ [][NextRuns]_vars

\* ------------------------------------------------------------ SpecParse
\* One attempt of extract_invoice as a function of the JSON object the model wrote.
InitParse ==
    /\ NoRequest
    /\ IndexEmpty
    /\ LoopIdle
    /\ NoRuns
    /\ reply \in Replies
    /\ parsed = NoOutcome

\* The try body of the retry loop on the completion carrying reply: the record
\* _parse_completion returns, or the exception raised.
ParseReply ==
    /\ parsed = NoOutcome
    /\ LET e == AttemptError(Completion(reply)) IN
       parsed' = IF e = None
                 THEN Returned(InvoiceOCRResponse(SetDefaults(reply)))
                 ELSE Raised(e, None)
    /\ reply' = reply
    /\ UNCHANGED <<ocrVars, ixVars, srvVars, runVars>>

SpecParse == InitParse /\ [][ParseReply]_vars

\* ------------------------------------------------------------ properties of Spec
\* The response is a transport failure: timeout, connection failure or non-2xx status.
TransportFails(r) == r.net # "ok" \/ r.status \notin 200..299

\* The response carries a JSON object that validates as an invoice record.
SchemaValid(r) ==
    /\ ~TransportFails(r)
    /\ r.body = "json" /\ r.choices = "ok" /\ r.content = "object"
    /\ r.data \in {"object", "missing"} /\ r.valid

\* The response fails in one of the ways the retry policy names as retryable.
RetryableFailure(r) == ~SchemaValid(r)

\* extract_invoice is over (returned, raised, or was cancelled).
ExtractOver == pc \in {"finally", "respond", "done"} /\ rasterized.bound

\* C1: for every maximum M >= 1 and N in 1..M, transport failures on attempts 1..N-1
\* and a schema-valid response on attempt N give that record after exactly N transport
\* calls and no further call; M transport failures give exactly M calls and the
\* exhaustion error.
C1_RetryCount ==
    /\ \A n \in 1..max_request_retries :
         ( /\ Len(resps) >= n
           /\ \A i \in 1..(n - 1) : TransportFails(resps[i])
           /\ SchemaValid(resps[n]) )
         => /\ calls = n
            /\ inflight = 0
            /\ pending = Returned(resps[n].invoice)
    /\ ( /\ max_request_retries >= 1
         /\ Len(resps) = max_request_retries
         /\ \A i \in 1..Len(resps) : TransportFails(resps[i]) )
       => /\ calls = max_request_retries
          /\ inflight = 0
          /\ (pc # "loop" => pending.kind = "raised" /\ pending.exc = "OCRClientError")

C1_Witness ==
    /\ pc = "done"
    /\ max_request_retries = 3
    /\ Len(resps) = 2
    /\ TransportFails(resps[1])
    /\ result = Returned(InvB)
    /\ calls = 2

\* C2: a failed attempt of any retryable kind never leaves the retry loop as the
\* error of extract_invoice, and is followed by the next attempt while attempts remain.
C2_RetryableFailuresRetried ==
    \A i \in 1..Len(resps) :
        RetryableFailure(resps[i]) =>
            /\ ~(Len(resps) = i /\ pending = Raised(errors[i], None))
            /\ (i < max_request_retries => iter > i \/ pc = "loop")

\* C3: once rasterization has returned its handle, the release of the temporary
\* directory is invoked exactly once by the time Pipeline.run is left, on every path.
C3_CleanupExactlyOnce ==
    /\ cleanupCalls <= 1
    /\ (rasterized.bound /\ pc \in {"respond", "done"} => cleanupCalls = 1)
    /\ (pc \in {"extract", "loop", "await", "finally"} => cleanupCalls = 0)

C3_Witness ==
    /\ pc = "done"
    /\ rasterized.bound
    /\ result.exc \in {"ValueError", "asyncio.CancelledError", "OCRClientError"}
    /\ cleanupCalls = 1

\* C4: when the release of the pages fails, the caller of Pipeline.run still sees the
\* outcome of the extraction: the record, or the original error.
C4_CleanupFailureSwallowed ==
    (pc \in {"respond", "done"} /\ cleanupRaised) =>
        /\ result = pending
        /\ result.kind \in {"returned", "raised"}

C4_Witness ==
    /\ pc = "done"
    /\ cleanupRaised
    /\ result.kind = "raised"
    /\ result.exc = "OCRClientError"

\* C7: the exhaustion error raised after every attempt failed has the failure of the
\* last attempt as its cause.
C7_ExhaustionCause ==
    (pending.exc = "OCRClientError" /\ iter >= 1) =>
        /\ Len(errors) = iter
        /\ iter = max_request_retries
        /\ pending.cause = errors[Len(errors)]
        /\ pending.cause # None

C7_Witness ==
    /\ result.exc = "OCRClientError"
    /\ Len(errors) = 3
    /\ errors[1] # errors[3]
    /\ errors[2] # errors[3]
    /\ result.cause = errors[3]

\* C8: rasterize raises whenever the bytes are no PDF or the PDF has zero pages; a
\* zero-page PDF never yields a returned RasterizedPDF.
C8_ZeroPagesRejected ==
    (pc \notin {"request", "rasterize"} /\ http # 400
       /\ (upload.bytes # "pdf" \/ upload.pages = 0)) =>
        /\ ~rasterized.bound
        /\ pending.kind = "raised"

\* C9: whenever rasterize returns no handle, the temporary directory it allocated is
\* released by the time the failure reaches the caller.
C9_NoOrphanedTempDir ==
    (pc \in {"finally", "respond", "done"} /\ ~rasterized.bound /\ tmpdir # "none") =>
        tmpdir = "released"

\* C10: an empty image sequence is rejected with the local ValueError and no transport
\* call; a request with a zero-page or empty upload issues no transport call.
C10_EmptyInputNoCall ==
    /\ (upload.bytes = "empty" \/ upload.pages = 0) => calls = 0
    /\ (rasterized.bound /\ rasterized.image_paths = <<>>) =>
          /\ calls = 0
          /\ (pc # "extract" => pending = Raised("ValueError", None))

C10_Witness ==
    /\ pc = "done"
    /\ upload.bytes = "pdf"
    /\ upload.pages = 0
    /\ max_request_retries >= 1
    /\ result = Raised("ValueError", None)
    /\ http = 500
    /\ calls = 0

\* ------------------------------------------------------------ properties of the index
\* The similarity structure and the payload store agree: same length, the k-th vector
\* is the embedding of the k-th stored text, which is the dump of the k-th payload;
\* with no similarity structure the store is empty.
Lockstep ==
    /\ Len(index.vectors) = Len(store)
    /\ ~index.live => store = <<>>
    /\ \A k \in 1..Len(store) :
         /\ k <= Len(index.vectors)
         /\ index.vectors[k] = Embed(store[k].raw_text, index.d)
         /\ store[k].raw_text = Dumps(store[k].payload)

\* C5: after any sequence of add, query and drop calls, failed adds included, the
\* similarity structure and the payload store are in lockstep.
C5_Lockstep == Lockstep

C5_Witness ==
    /\ ixOut.op = "add"
    /\ ixOut.exc = "AssertionError"
    /\ ixOut.n = 1
    /\ Len(store) = 2
    /\ store[1].payload # store[2].payload

\* C6: with several handlers in flight, whenever the event loop is free for another
\* handler to run, the similarity structure and the payload store are in lockstep.
C6_SerializedMutations == running = 0 => Lockstep

C6_Witness ==
    \E h, g \in HandlerIds :
        /\ h # g
        /\ handlers[h].kind = "ocr"
        /\ handlers[h].pc = "add.store"
        /\ handlers[g].kind = "ocr"
        /\ handlers[g].pc = "run"
        /\ Len(store) >= 1
        /\ ~Lockstep

\* C11: query returns an empty sequence whenever no non-empty add was called since
\* construction or since the last drop, however many entries that drop discarded.
C11_QueryEmptyWithoutAdd ==
    (ixOut.op = "query" /\ ~since.added) =>
        /\ ixOut.exc = None
        /\ ixOut.results = <<>>

C11_Witness ==
    /\ ixOut.op = "query"
    /\ ~since.added
    /\ since.dropped >= 2

\* C12: a call of add with an empty sequence returns normally and leaves the
\* similarity structure, the dimension and the payload store as they were.
C12_AddEmptyIsNoOp ==
    [][ (ixOut'.op = "add" /\ ixOut'.n = 0) =>
            /\ ixOut'.exc = None
            /\ index' = index
            /\ dimension' = dimension
            /\ store' = store ]_vars

C12_Witness ==
    /\ ixOut.op = "add"
    /\ ixOut.n = 0
    /\ ixOut.exc = None
    /\ ~index.live
    /\ ~since.added
    /\ store = <<>>

\* The hits of the last query whose position lies inside the store.
ValidHits ==
    { i \in 1..Len(ixOut.hits) :
        ixOut.hits[i].idx >= 0 /\ ixOut.hits[i].idx < Len(store) }

\* C13: a query that returns on an initialized index gives one entry per hit whose
\* position lies inside the store, in the order of the hits, at most min(top_k, store
\* length) of them; each entry carries the payload stored at the hit's position.
C13_QueryMapsHits ==
    (ixOut.op = "query" /\ ixOut.exc = None /\ index.live) =>
        /\ Len(ixOut.hits) = ixOut.top_k
        /\ Len(ixOut.results) = Cardinality(ValidHits)
        /\ Len(ixOut.results) <= ixOut.top_k
        /\ Len(ixOut.results) <= Len(store)
        /\ \E f \in [1..Len(ixOut.results) -> ValidHits] :
             /\ \A i, j \in 1..Len(ixOut.results) : i < j => f[i] < f[j]
             /\ \A i \in 1..Len(ixOut.results) :
                  /\ ixOut.results[i].score = ixOut.hits[f[i]].score
                  /\ ixOut.results[i].invoice = store[ixOut.hits[f[i]].idx + 1].payload

C13_Witness ==
    /\ ixOut.op = "query"
    /\ ixOut.exc = None
    /\ ixOut.top_k = 2
    /\ Len(store) = 2
    /\ store[1].payload # store[2].payload
    /\ Len(index.vectors) = 3
    /\ ixOut.hits[1].idx = 2
    /\ ixOut.hits[2].idx = 1
    /\ Len(ixOut.results) = 1
    /\ ixOut.results[1].invoice = store[2].payload

\* C17: for a PDF of N >= 1 pages whose page images can all be written, rasterize
\* returns N image locations, the i-th holding page i, all written into the one
\* temporary directory; once cleanup has run, the directory and the images are gone.
C17_OneImagePerPage ==
    ( /\ upload.bytes = "pdf" /\ upload.pages >= 1 /\ upload.saveFail = 0
      /\ pc \notin {"request", "rasterize"} /\ http # 400 ) =>
        /\ rasterized.bound
        /\ Len(rasterized.image_paths) = upload.pages
        /\ \A i \in 1..upload.pages :
             /\ rasterized.image_paths[i].page = i
             /\ \A j \in 1..upload.pages :
                  i # j => rasterized.image_paths[i].file # rasterized.image_paths[j].file
        /\ cleanupCalls = 0 =>
             /\ tmpdir = "allocated"
             /\ saved = { rasterized.image_paths[i] : i \in 1..upload.pages }
        /\ (cleanupCalls = 1 /\ ~cleanupRaised) =>
             /\ tmpdir = "released"
             /\ saved = {}

C17_Witness ==
    /\ pc = "done"
    /\ upload.pages = 2
    /\ Len(rasterized.image_paths) = 2
    /\ rasterized.image_paths[2].page = 2
    /\ cleanupCalls = 1
    /\ ~cleanupRaised
    /\ tmpdir = "released"
    /\ saved = {}

\* C18: Pipeline.run hands a failure of the rasterizer or of the OCR client to its
\* caller as that same error, and repeats nothing: one rasterization at most, and at
\* most max_request_retries transport calls.
C18_PropagatesWithoutRetry ==
    /\ rasterCalls <= 1
    /\ calls <= max_request_retries
    /\ (pc \in {"respond", "done"} /\ pending.kind = "raised") => result = pending
    /\ (pc \in {"respond", "done"} /\ ~rasterized.bound /\ rasterCalls = 1) =>
          /\ result.kind = "raised"
          /\ result.exc \in {"PDFPageCountError", "OSError"}
          /\ calls = 0

C18_Witness ==
    /\ pc = "done"
    /\ rasterCalls = 1
    /\ max_request_retries = 3
    /\ calls = 3
    /\ result.kind = "raised"
    /\ result.exc = "OCRClientError"
    /\ result.cause = "httpx.TimeoutException"

\* C19: no transport call is made before rasterization has returned with every page
\* image written; at most one attempt is in flight, and an attempt is sent only after
\* every earlier attempt has been seen to fail.
C19_Ordering ==
    /\ inflight \in {0, 1}
    /\ calls > 0 =>
         /\ rasterCalls = 1
         /\ rasterized.bound
         /\ Len(rasterized.image_paths) = upload.pages
    /\ inflight = 1 =>
         /\ tmpdir = "allocated"
         /\ saved = { rasterized.image_paths[i] : i \in 1..upload.pages }
         /\ Len(errors) = calls - 1
         /\ \A i \in 1..Len(errors) : errors[i] # None

C19_Witness ==
    /\ pc = "await"
    /\ inflight = 1
    /\ calls = 3
    /\ Len(errors) = 2
    /\ upload.pages = 2

\* C20: with several runs in flight, each suspended at its transport call, every run
\* has a directory of its own, and that directory holds all of the run's page images
\* for as long as the run is suspended there: no other run's rasterization or cleanup
\* touches them.
C20_RunOwnsItsPages ==
    \A r \in RunIds :
        runs[r].pc = "await" =>
            /\ runs[r].dir \in DOMAIN tmpfs
            /\ tmpfs[runs[r].dir].files = Images(runs[r].pages, runs[r].pages)
            /\ \A q \in RunIds :
                 (q # r /\ runs[q].pc = "await") => runs[q].dir # runs[r].dir

C20_Witness ==
    /\ runs[1].pc = "await"
    /\ runs[2].pc = "await"
    /\ runs[1].pages = 2
    /\ runs[2].pages = 1
    /\ runs[1].dir # runs[2].dir
    /\ tmpfs[runs[2].dir].files = Images(1, 1)
    /\ Cardinality(DOMAIN tmpfs) = 3

\* ------------------------------------------------------------ properties of SpecParse
\* What the reply holds is valid as far as it goes: a status, if any, is one of the
\* two literals, and no line item or total breaks its schema.
OtherwiseValid(doc) ==
    /\ doc.status \in Opt({"success", "error"})
    /\ doc.data # <<>> =>
         /\ \A i \in 1..Len(doc.data[1].line_items) :
              LET it == doc.data[1].line_items[i] IN
              /\ it.description # <<>>
              /\ it.quantity >= 0
              /\ it.unit_price >= 0
              /\ it.total \in {<<>>, <<0>>}
         /\ doc.data[1].totals # <<>> =>
              \A f \in {"subtotal", "tax", "total"} : doc.data[1].totals[1][f] \in {<<>>, <<0>>}

\* The key as the record has it: the reply's value when the reply has the key, the
\* default otherwise.
KeptOrDefault(o, default) == IF o = <<>> THEN default ELSE o[1]

\* C14: a reply that lacks any subset of schema_version, status, model, warnings and
\* data.totals, and is valid otherwise, is accepted; the record has the default for
\* each key that is missing and the reply's own value for each key that is present.
C14_DefaultsFilled ==
    (parsed # NoOutcome /\ OtherwiseValid(reply)) =>
        /\ parsed.kind = "returned"
        /\ parsed.value.schema_version = KeptOrDefault(reply.schema_version, "invoice_v1")
        /\ parsed.value.status = KeptOrDefault(reply.status, "success")
        /\ parsed.value.model = KeptOrDefault(reply.model, deepseek_model)
        /\ parsed.value.warnings = KeptOrDefault(reply.warnings, <<>>)
        /\ LET t == IF reply.data = <<>> THEN EmptyTotals
                    ELSE KeptOrDefault(reply.data[1].totals, EmptyTotals) IN
           \A f \in {"subtotal", "tax", "discounts", "total"} : parsed.value.totals[f] = t[f]
        /\ parsed.value.line_items =
              IF reply.data = <<>> THEN <<>> ELSE reply.data[1].line_items

C14_Witness ==
    /\ parsed.kind = "returned"
    /\ reply.schema_version = <<>>
    /\ reply.status = <<>>
    /\ reply.model = <<>>
    /\ reply.warnings = <<>>
    /\ reply.data # <<>>
    /\ reply.data[1].totals = <<>>
    /\ Len(reply.data[1].line_items) = 1
    /\ parsed.value.model = deepseek_model
    /\ parsed.value.totals.total = <<>>

\* A line item of the reply lacks description or has a negative quantity, unit_price
\* or total, or the totals have a negative subtotal, tax or total.
Defective(doc) ==
    /\ doc.data # <<>>
    /\ \/ \E i \in 1..Len(doc.data[1].line_items) :
            LET it == doc.data[1].line_items[i] IN
            \/ it.description = <<>>
            \/ it.quantity < 0
            \/ it.unit_price < 0
            \/ (it.total # <<>> /\ it.total[1] < 0)
       \/ /\ doc.data[1].totals # <<>>
          /\ \E f \in {"subtotal", "tax", "total"} :
               /\ doc.data[1].totals[1][f] # <<>>
               /\ doc.data[1].totals[1][f][1] < 0

\* C15: an attempt on a reply with such a defect returns no record: it raises a
\* ValidationError, which the retry loop catches as a failed attempt. A reply whose
\* only flaw is a negative totals.discounts is accepted, discounts as supplied.
C15_NegativeRejected ==
    parsed # NoOutcome =>
        /\ Defective(reply) =>
             /\ parsed.kind = "raised"
             /\ parsed.exc = "ValidationError"
             /\ Caught(parsed.exc)
        /\ ( /\ OtherwiseValid(reply)
             /\ reply.data # <<>>
             /\ reply.data[1].totals # <<>>
             /\ reply.data[1].totals[1].discounts = <<-1>> ) =>
             /\ parsed.kind = "returned"
             /\ parsed.value.totals.discounts = <<-1>>

C15_Witness ==
    /\ parsed.kind = "raised"
    /\ parsed.exc = "ValidationError"
    /\ reply.status = <<"error">>
    /\ reply.data # <<>>
    /\ reply.data[1].totals = <<[EmptyTotals EXCEPT !.discounts = <<-1>>]>>
    /\ Len(reply.data[1].line_items) = 1
    /\ reply.data[1].line_items[1] =
          [description |-> <<"widget">>, quantity |-> 0, unit_price |-> -1, total |-> <<>>]

\* C16: every record an attempt returns has schema_version "invoice_v1", whatever
\* the reply carried under that key.
C16_SchemaVersionFixed ==
    parsed.kind = "returned" => parsed.value.schema_version = "invoice_v1"

\* The index is Empty (no similarity structure, no dimension, nothing stored) or
\* Initialized(d) (a similarity structure of width d, _dimension = d).
Empty(idx, dimn, st) == ~idx.live /\ dimn = 0 /\ st = <<>>
Initialized(idx, dimn) == idx.live /\ dimn = idx.d /\ dimn \in Dims

\* C22: the index is always Empty or Initialized(d). A non-empty add that returns
\* from Empty leaves it Initialized with the width of the embeddings it stored; one
\* that returns from Initialized(d) appends and keeps d; one whose embeddings have
\* another width raises and leaves similarity structure, dimension and store as
\* they were.
C22_AddStateMachine ==
    [][ /\ Empty(index, dimension, store) \/ Initialized(index, dimension)
        /\ Empty(index', dimension', store') \/ Initialized(index', dimension')
        /\ (ixOut'.op = "add" /\ ixOut'.n > 0) =>
             /\ (ixOut'.exc = None /\ ~index.live) =>
                  /\ Initialized(index', dimension')
                  /\ Len(index'.vectors) = ixOut'.n
                  /\ Len(store') = ixOut'.n
                  /\ \A k \in 1..Len(index'.vectors) : index'.vectors[k].d = dimension'
             /\ (ixOut'.exc = None /\ index.live) =>
                  /\ Initialized(index', dimension')
                  /\ dimension' = dimension
                  /\ Len(index'.vectors) = Len(index.vectors) + ixOut'.n
                  /\ SubSeq(index'.vectors, 1, Len(index.vectors)) = index.vectors
                  /\ Len(store') = Len(store) + ixOut'.n
                  /\ SubSeq(store', 1, Len(store)) = store
                  /\ \A k \in 1..Len(index'.vectors) : index'.vectors[k].d = dimension
             /\ ixOut'.exc = "AssertionError" =>
                  /\ index.live
                  /\ index' = index
                  /\ dimension' = dimension
                  /\ store' = store
      ]_vars

C22_Witness ==
    /\ ixOut.op = "add"
    /\ ixOut.n = 2
    /\ ixOut.exc = "AssertionError"
    /\ Initialized(index, dimension)
    /\ dimension = 768
    /\ Len(index.vectors) = 1
    /\ Len(store) = 1
    /\ since.dropped >= 1

\* C23: a call of query, whatever its text and top_k and whether it returns or
\* raises, leaves the similarity structure, its dimension and the payload store as
\* they were.
C23_QueryReadOnly ==
    [][ ixOut'.op = "query" =>
          /\ index' = index
          /\ dimension' = dimension
          /\ store' = store
      ]_vars

C23_Witness ==
    /\ ixOut.op = "query"
    /\ ixOut.exc = None
    /\ Len(ixOut.results) = 2
    /\ ixOut.results[1].invoice # ixOut.results[2].invoice
    /\ Len(store) = 3
    /\ since.dropped >= 1

\* ------------------------------------------------------------ properties of SpecLive
\* Pipeline.run has returned or raised.
RunOver == pc \in {"respond", "done"} /\ rasterCalls = 1

\* C21: when every transport call ends, with a response or with a timeout, every
\* run that has started ends; it ends with the record of a schema-valid response or
\* with an error, and an attempt that timed out is a failed attempt: the loop goes
\* on to the next attempt while attempts remain and the timeout is never what
\* extract_invoice raises.
C21_RunTerminates ==
    /\ (pc = "rasterize") ~> RunOver
    /\ [](RunOver =>
            \/ result.kind = "raised"
            \/ /\ result.kind = "returned"
               /\ Len(resps) >= 1
               /\ SchemaValid(resps[Len(resps)])
               /\ result.value = resps[Len(resps)].invoice)
    /\ [](\A i \in 1..Len(resps) :
            resps[i].net = "timeout" =>
                /\ errors[i] = "httpx.TimeoutException"
                /\ pending # Raised("httpx.TimeoutException", None)
                /\ i < max_request_retries => (iter > i \/ pc = "loop"))

C21_Witness ==
    /\ RunOver
    /\ max_request_retries = 3
    /\ Len(resps) = 3
    /\ resps[1].net = "timeout"
    /\ resps[2].net = "timeout"
    /\ result.kind = "returned"
    /\ calls = 3

====
